---------------------------- MODULE Spec2Model ----------------------------
(***************************************************************************)
(* State-machine model of src/bot.py: the Soneium transaction tracker.     *)
(*                                                                         *)
(* Three coroutines share the module globals WATCHED_ADDRESSES and         *)
(* LAST_BLOCK on one asyncio event loop:                                   *)
(*   main()               load_data, set_initial_last_block, then starts   *)
(*                        the poll task and the command dispatcher;        *)
(*   track_transactions() the poll loop (sweep, save, send, sleep 30);     *)
(*   add_address()        the /add command handler.                        *)
(* Control passes between coroutines only at an await that suspends: the   *)
(* HTTP fetch, bot.send_message, asyncio.sleep.  One action of the model   *)
(* is the code between two such awaits.  The poll loop's code between two  *)
(* awaits is split into several steps (one per record of a response); the  *)
(* predicate PollAtomic keeps every other action disabled in between.      *)
(*                                                                         *)
(* Strings on which the code computes (addresses: lower(); token symbols:  *)
(* substring test; call input: truthiness and comparison with "0x") are    *)
(* tuples of one-character strings.  A transaction record is a TLA+ record *)
(* whose DOMAIN is the set of keys of the Python dict.                     *)
(***************************************************************************)
EXTENDS Integers, Sequences, FiniteSets, TLC

VARIABLES
    chain,              \* hashes of the transactions the explorer knows
    diskWatched,        \* content of watched_addresses.json
    diskLastBlock,      \* content of last_block.json
    WATCHED_ADDRESSES,  \* dict address -> {name, chat_id}, in insertion order
    LAST_BLOCK,         \* dict address -> int
    mainPc,             \* position of main()
    seedPos,            \* set_initial_last_block: keys already visited
    pollPc,             \* position of track_transactions()
    iterPos,            \* the dict iterator of line 66: entries handed out
    iterUsed,           \* the dict iterator of line 66: len(dict) at creation
    cur,                \* (address, data) of the current iteration of line 66
    resp,               \* HTTP responses received and not yet consumed
    last_block,         \* local last_block of line 69
    txs,                \* transactions["result"] of the response in hand
    txIdx,              \* position of the loop of line 70 in txs
    new_tx_count,       \* local new_tx_count
    notification_queue, \* local notification_queue
    item,               \* the queue item whose send_message is awaited
    crashCause,         \* the exception that ended track_transactions()
    addPc,              \* position of the add_address() handler
    addArg,             \* address of the add_address() handler in flight
    adds,               \* /add commands handled
    notified,           \* history: (address, hash) pairs ever enqueued
    renotified,         \* history: pairs enqueued again after being enqueued
    passLog,            \* history: the items attempted in the current cycle
    lastOutcome,        \* history: how the latest delivery attempt ended
    twinHashes,         \* history: see PollLeave
    seeded,             \* history: per address, the last value seeding wrote
    addNew,             \* history: the handler in flight added a new key
    startSeen           \* history: per address, the hashes of the records
                        \* set_initial_last_block() got at startup

vars == <<chain, diskWatched, diskLastBlock, WATCHED_ADDRESSES, LAST_BLOCK,
          mainPc, seedPos, pollPc, iterPos, iterUsed, cur, resp, last_block,
          txs, txIdx, new_tx_count, notification_queue, item, crashCause,
          addPc, addArg, adds, notified, renotified, passLog, lastOutcome,
          twinHashes, seeded, addNew, startSeen>>

-----------------------------------------------------------------------------
(* Strings *)

A_LOWER == <<"0", "x", "a">>
A_MIXED == <<"0", "x", "A">>
A_UPPER == <<"0", "X", "A">>
B_LOWER == <<"0", "x", "b">>
B_MIXED == <<"0", "x", "B">>
C_LOWER == <<"0", "x", "c">>

USDC     == <<"U", "S", "D", "C">>
NFT      == <<"N", "F", "T">>
APE_NFT  == <<"A", "P", "E", "N", "F", "T">>
NFT_LOW  == <<"n", "f", "t">>
EMPTY    == <<>>
ZERO_X   == <<"0", "x">>
CALLDATA == <<"0", "x", "a", "b", "c">>

\* str.lower() on one character
LowerChar(c) ==
    CASE c = "A" -> "a"
      [] c = "B" -> "b"
      [] c = "C" -> "c"
      [] c = "N" -> "n"
      [] c = "F" -> "f"
      [] c = "T" -> "t"
      [] c = "X" -> "x"
      [] OTHER   -> c

\* str.lower()
Lower(s) == [i \in 1..Len(s) |-> LowerChar(s[i])]

\* Python's  pat in s  on strings
Contains(s, pat) ==
    \E k \in 0..(Len(s) - Len(pat)) :
        \A i \in 1..Len(pat) : s[k + i] = pat[i]

-----------------------------------------------------------------------------
(* Dicts *)

\* dict.get(key, 0) on LAST_BLOCK
Get(d, k) == IF k \in DOMAIN d THEN d[k] ELSE 0

\* d[key] = value on LAST_BLOCK
Put(d, k, v) == [x \in (DOMAIN d) \cup {k} |-> IF x = k THEN v ELSE d[x]]

EmptyDict == [x \in {} |-> 0]

\* save_json leaving the file as it was
save_json_lost(old, data) == old

\* save_json(filename, data), lines 33-35: what the file holds afterwards,
\* having held old.  The dicts have string keys and values that are
\* integers or dicts of a string and an integer, which json.dump writes and
\* json.load reads back unchanged.
save_json(old, data) == data

\* the keys of WATCHED_ADDRESSES, in insertion order
Keys(w) == [i \in 1..Len(w) |-> w[i].address]

HasKey(w, a) == \E i \in 1..Len(w) : w[i].address = a

\* WATCHED_ADDRESSES[address] = {"name": name, "chat_id": chat}: an existing
\* key keeps its place and takes the new value, a new key goes last
PutWatched(w, a, name, chat) ==
    LET e == [address |-> a, name |-> name, chat_id |-> chat]
    IN  IF HasKey(w, a)
        THEN [i \in 1..Len(w) |-> IF w[i].address = a THEN e ELSE w[i]]
        ELSE Append(w, e)


-----------------------------------------------------------------------------
(* Bounds of the model *)

\* /add commands that may be handled
MaxAdds == 1

-----------------------------------------------------------------------------
(* The block explorer (BLOCKSCOUT_API, external) *)

\* The token transfers that can exist.  At block 1 account 0xb sends a
\* token to account 0xa; at block 2 account 0xa sends an NFT and receives a
\* token, two transfers in one block.
TX1 == [hash |-> 1, blockNumber |-> 1, from |-> B_LOWER, to |-> A_LOWER,
        tokenSymbol |-> USDC]
TX2 == [hash |-> 2, blockNumber |-> 2, from |-> A_LOWER, to |-> C_LOWER,
        tokenSymbol |-> APE_NFT]
TX3 == [hash |-> 3, blockNumber |-> 2, from |-> C_LOWER, to |-> A_LOWER,
        tokenSymbol |-> USDC]

Universe == {TX1, TX2, TX3}

Hashes == {t.hash : t \in Universe}

TxByHash(h) == CHOOSE t \in Universe : t.hash = h

\* What an explorer that knows the hashes c holds for ?address=<address>:
\* hex addresses are matched whatever their letter case
Explorer(c, address) ==
    {t \in Universe : /\ t.hash \in c
                      /\ Lower(address) \in {Lower(t.from), Lower(t.to)}}

\* What the explorer may know by the time it answers: transfers are mined
\* while the bot runs, and block numbers only grow
Grown(c) ==
    {d \in SUBSET Hashes :
        /\ c \subseteq d
        /\ \A g \in c, h \in d \ c :
              TxByHash(g).blockNumber <= TxByHash(h).blockNumber}

\* Every order in which the explorer may list a set of records
Orderings(S) ==
    {s \in [1..Cardinality(S) -> S] :
        \A i, j \in 1..Cardinality(S) : i # j => s[i] # s[j]}

NoResp == [kind |-> "none", records |-> {}]

\* What session.get(url) can come to: a JSON body listing the records the
\* explorer holds at that moment, a body json cannot decode, or an aiohttp
\* exception (connection error, timeout, wrong content type).  A response in
\* flight is kept as the set of its records; nothing reads their order
\* before the body is decoded, so the order is drawn there (Bodies).
HttpOutcomes(c, address) ==
    {[kind |-> "json", records |-> Explorer(c, address)],
     [kind |-> "malformed", records |-> {}],
     [kind |-> "neterr", records |-> {}]}

\* The bodies a response can decode to: its records in any order
Bodies(raw) == Orderings(raw.records)

\* fetch_transactions: the value returned, or the exception left to the
\* caller; body is what response.json() gives for a JSON response
fetch_transactions(raw, body) ==
    CASE raw.kind = "json"      -> [raised |-> FALSE, result |-> body]
      [] raw.kind = "malformed" -> [raised |-> FALSE, result |-> <<>>]
      [] OTHER                  -> [raised |-> TRUE,  result |-> <<>>]

\* The hashes of the records of a response
HashSet(result) == {result[i].hash : i \in 1..Len(result)}

\* The block of the first record taken for the highest
LatestBlock_first(result) == result[1].blockNumber

\* max(int(tx["blockNumber"]) for tx in transactions["result"])
LatestBlock(result) ==
    CHOOSE b \in {result[i].blockNumber : i \in 1..Len(result)} :
        \A i \in 1..Len(result) : result[i].blockNumber <= b

-----------------------------------------------------------------------------
(* Inputs of the /add command *)

\* The spellings of the addresses a registry key may have: the domain of
\* the per-address histories
Addresses == {A_LOWER, B_LOWER, B_MIXED}

\* What users send: /add with 0xa or with 0xb, with or without a name
AddAddresses == {A_LOWER, B_LOWER}
Names        == {"alice"}
Chats        == {7}

Entry(a) == [address |-> a, name |-> "alice", chat_id |-> 7]

NoEntry == [address |-> EMPTY, name |-> "", chat_id |-> 0]
NoItem  == [tx |-> TX1, address |-> EMPTY, name |-> "", chat_id |-> 0]


-----------------------------------------------------------------------------
(* Start of the process: main(), lines 147-155 *)

\* What an earlier run of the bot may have left: the registry file is
\* absent, or holds 0xa, or 0xa and 0xb; the progress file is absent, or
\* holds block 1 for 0xa, whose first transfer the explorer then knows
InitFiles ==
    /\ diskWatched \in {<<>>, <<Entry(A_LOWER)>>,
                        <<Entry(A_LOWER), Entry(B_LOWER)>>}
    /\ \/ /\ diskLastBlock = EmptyDict
          /\ chain = {}
       \/ /\ diskWatched # <<>>
          /\ diskLastBlock = (A_LOWER :> 1)
          /\ chain = {1}

Init ==
    /\ InitFiles
    /\ WATCHED_ADDRESSES = <<>>
    /\ LAST_BLOCK = EmptyDict
    /\ mainPc = "load"
    /\ seedPos = 0
    /\ pollPc = "unborn"
    /\ iterPos = 0
    /\ iterUsed = 0
    /\ cur = NoEntry
    /\ resp = [poll |-> NoResp, add |-> NoResp]
    /\ last_block = 0
    /\ txs = <<>>
    /\ txIdx = 0
    /\ new_tx_count = 0
    /\ notification_queue = <<>>
    /\ item = NoItem
    /\ crashCause = "none"
    /\ addPc = "idle"
    /\ addArg = EMPTY
    /\ adds = 0
    /\ notified = {}
    /\ renotified = {}
    /\ passLog = <<>>
    /\ lastOutcome = "none"
    /\ twinHashes = [a \in Addresses |-> {}]
    /\ seeded = [a \in Addresses |-> -1]
    /\ addNew = FALSE
    /\ startSeen = [a \in Addresses |-> {}]

pollLocals == <<iterPos, iterUsed, cur, last_block, txs, txIdx, new_tx_count,
                notification_queue, item>>
pollVars   == <<pollPc, pollLocals, crashCause>>
addVars    == <<addPc, addArg, adds>>
history    == <<notified, renotified, passLog, lastOutcome,
                twinHashes, seeded>>
history2   == <<addNew, startSeen>>

\* load_data(): both files through load_json, a missing file giving {}
LoadData ==
    /\ mainPc = "load"
    /\ WATCHED_ADDRESSES' = diskWatched
    /\ LAST_BLOCK' = diskLastBlock
    /\ mainPc' = "seed"
    /\ UNCHANGED <<chain, diskWatched, diskLastBlock, seedPos, pollVars, resp,
                   addVars, history,
                   history2>>

\* set_initial_last_block(), one turn of the loop of line 54.  Nothing else
\* runs yet, so the fetch and its use are one step.
SeedStep ==
    /\ mainPc = "seed"
    /\ seedPos < Len(WATCHED_ADDRESSES)
    /\ \E c \in Grown(chain) :
       \E raw \in HttpOutcomes(c, Keys(WATCHED_ADDRESSES)[seedPos + 1]) :
       \E body \in Bodies(raw) :
         LET address      == Keys(WATCHED_ADDRESSES)[seedPos + 1]
             transactions == fetch_transactions(raw, body)
             latest_block == LatestBlock(transactions.result)
         IN  /\ chain' = c
             /\ IF transactions.raised
                THEN /\ mainPc' = "dead"
                     /\ UNCHANGED <<LAST_BLOCK, seedPos, seeded, startSeen>>
                ELSE /\ mainPc' = "seed"
                     /\ seedPos' = seedPos + 1
                     /\ IF transactions.result # <<>>
                        THEN /\ LAST_BLOCK' =
                                  Put(LAST_BLOCK, address, latest_block)
                             /\ seeded' = [seeded EXCEPT
                                             ![address] = latest_block]
                             /\ startSeen' =
                                  [startSeen EXCEPT
                                     ![address] = HashSet(transactions.result)]
                        ELSE UNCHANGED <<LAST_BLOCK, seeded, startSeen>>
    /\ UNCHANGED <<diskWatched, diskLastBlock, WATCHED_ADDRESSES,
                   pollVars, resp, addVars, notified, renotified, passLog,
                   lastOutcome, twinHashes, addNew>>

\* The end of set_initial_last_block() (line 59), then lines 154-155: the
\* poll task exists and commands are served
SeedDone ==
    /\ mainPc = "seed"
    /\ seedPos = Len(WATCHED_ADDRESSES)
    /\ diskLastBlock' = save_json(diskLastBlock, LAST_BLOCK)
    /\ mainPc' = "running"
    /\ pollPc' = "top"
    /\ UNCHANGED <<chain, diskWatched, WATCHED_ADDRESSES, LAST_BLOCK, seedPos,
                   pollLocals, crashCause, resp, addVars, history,
                   history2>>


-----------------------------------------------------------------------------
(* The poll loop: track_transactions(), lines 61-89 *)

\* Positions of the poll loop that are not at an await: no other coroutine
\* runs while it is there
PollAtomic == pollPc \in {"iter", "proc", "dispatch", "log"}

Running == mainPc = "running"

\* The exception leaves track_transactions(): the task is over and nothing
\* restarts it.  Its queue is kept as it was: those items are never sent.
Crash(cause) ==
    /\ pollPc' = "crashed"
    /\ crashCause' = cause
    /\ UNCHANGED notification_queue
    /\ txs' = <<>>
    /\ txIdx' = 0
    /\ iterPos' = 0
    /\ iterUsed' = 0
    /\ last_block' = 0
    /\ new_tx_count' = 0
    /\ item' = NoItem
    /\ UNCHANGED cur

\* Lines 63-66: a new cycle; the for statement makes the iterator of
\* WATCHED_ADDRESSES.items()
CycleStart ==
    /\ Running
    /\ pollPc \in {"top", "sleep"}
    /\ new_tx_count' = 0
    /\ notification_queue' = <<>>
    /\ iterPos' = 0
    /\ iterUsed' = Len(WATCHED_ADDRESSES)
    /\ txs' = <<>>
    /\ txIdx' = 0
    /\ pollPc' = "iter"
    /\ passLog' = <<>>
    /\ lastOutcome' = "none"
    /\ UNCHANGED <<chain, diskWatched, diskLastBlock, WATCHED_ADDRESSES,
                   LAST_BLOCK, mainPc, seedPos, cur, resp, last_block, item,
                   crashCause, addVars, notified, renotified, twinHashes,
                   seeded,
                   history2>>

\* The records of a response that lie above the watermark it was read against
Above(result, watermark) ==
    {result[i] : i \in {j \in 1..Len(result) :
                           result[j].blockNumber > watermark}}

\* The pairs of records of a response that lie above the watermark, have
\* distinct hashes and are of one block
Twins(result, watermark) ==
    {p \in Above(result, watermark) \X Above(result, watermark) :
        p[1].hash # p[2].hash /\ p[1].blockNumber = p[2].blockNumber}

\* History, on leaving the records of one response: twinHashes of the
\* address is the set of the hashes of the twins of that response
PollLeave ==
    twinHashes' =
        IF txs = <<>> THEN twinHashes
        ELSE [twinHashes EXCEPT ![cur.address] =
                 {p[1].hash : p \in Twins(txs, last_block)}]

\* Line 66, the iterator's next(): the dict has another size than when the
\* iterator was made: RuntimeError, dictionary changed size during iteration
PollDictChanged ==
    /\ pollPc = "iter"
    /\ Len(WATCHED_ADDRESSES) # iterUsed
    /\ Crash("RuntimeError")
    /\ PollLeave
    /\ UNCHANGED <<chain, diskWatched, diskLastBlock, WATCHED_ADDRESSES,
                   LAST_BLOCK, mainPc, seedPos, resp, addVars, notified,
                   renotified, passLog, lastOutcome, seeded,
                   history2>>

\* Lines 66-67: the next (address, data), and the request for its records
PollFetch ==
    /\ pollPc = "iter"
    /\ Len(WATCHED_ADDRESSES) = iterUsed
    /\ iterPos < Len(WATCHED_ADDRESSES)
    /\ cur' = WATCHED_ADDRESSES[iterPos + 1]
    /\ iterPos' = iterPos + 1
    /\ resp' = [resp EXCEPT !.poll = NoResp]
    /\ pollPc' = "fetch"
    /\ txs' = <<>>
    /\ txIdx' = 0
    /\ PollLeave
    /\ UNCHANGED <<chain, diskWatched, diskLastBlock, WATCHED_ADDRESSES,
                   LAST_BLOCK, mainPc, seedPos, iterUsed, last_block,
                   new_tx_count, notification_queue, item, crashCause,
                   addVars, notified, renotified, passLog, lastOutcome, seeded,
                   history2>>

\* Lines 84-86: the iterator is exhausted; with new transactions the
\* progress file is written and send_notifications begins, without any the
\* loop goes on to line 88.  The locals of the sweep are dead from here on.
PollSweepDone ==
    /\ pollPc = "iter"
    /\ Len(WATCHED_ADDRESSES) = iterUsed
    /\ iterPos >= Len(WATCHED_ADDRESSES)
    /\ IF new_tx_count > 0
       THEN /\ diskLastBlock' = save_json(diskLastBlock, LAST_BLOCK)
            /\ pollPc' = "dispatch"
       ELSE /\ pollPc' = "log"
            /\ UNCHANGED diskLastBlock
    /\ txs' = <<>>
    /\ txIdx' = 0
    /\ iterPos' = 0
    /\ iterUsed' = 0
    /\ cur' = NoEntry
    /\ last_block' = 0
    /\ PollLeave
    /\ UNCHANGED <<chain, diskWatched, WATCHED_ADDRESSES, LAST_BLOCK, mainPc,
                   seedPos, resp, new_tx_count, notification_queue, item,
                   crashCause, addVars, notified, renotified, passLog,
                   lastOutcome, seeded,
                   history2>>

\* Line 67 resumes with an exception fetch_transactions does not catch
PollFetchRaised ==
    /\ pollPc = "fetch"
    /\ resp.poll # NoResp
    /\ \E body \in Bodies(resp.poll) :
         fetch_transactions(resp.poll, body).raised
    /\ Crash("FetchError")
    /\ resp' = [resp EXCEPT !.poll = NoResp]
    /\ UNCHANGED <<chain, diskWatched, diskLastBlock, WATCHED_ADDRESSES,
                   LAST_BLOCK, mainPc, seedPos, addVars, notified, renotified,
                   passLog, lastOutcome, twinHashes, seeded,
                   history2>>

\* Lines 67-68 with a falsy transactions.get("result"): no records, or the
\* {"result": []} of line 49
PollFetchEmpty ==
    /\ pollPc = "fetch"
    /\ resp.poll # NoResp
    /\ \E body \in Bodies(resp.poll) :
         /\ ~fetch_transactions(resp.poll, body).raised
         /\ fetch_transactions(resp.poll, body).result = <<>>
    /\ pollPc' = "iter"
    /\ resp' = [resp EXCEPT !.poll = NoResp]
    /\ UNCHANGED <<chain, diskWatched, diskLastBlock, WATCHED_ADDRESSES,
                   LAST_BLOCK, mainPc, seedPos, pollLocals, crashCause,
                   addVars, notified, renotified, passLog, lastOutcome,
                   twinHashes, seeded,
                   history2>>

\* Lines 67-70 with records: last_block is read once, before the loop
PollFetchRecords ==
    /\ pollPc = "fetch"
    /\ resp.poll # NoResp
    /\ \E body \in Bodies(resp.poll) :
         /\ ~fetch_transactions(resp.poll, body).raised
         /\ fetch_transactions(resp.poll, body).result # <<>>
         /\ txs' = fetch_transactions(resp.poll, body).result
    /\ last_block' = Get(LAST_BLOCK, cur.address)
    /\ txIdx' = 1
    /\ pollPc' = "proc"
    /\ resp' = [resp EXCEPT !.poll = NoResp]
    /\ UNCHANGED <<chain, diskWatched, diskLastBlock, WATCHED_ADDRESSES,
                   LAST_BLOCK, mainPc, seedPos, iterPos, iterUsed, cur,
                   new_tx_count, notification_queue, item, crashCause,
                   addVars, history,
                   history2>>

\* Line 74 as written with < for <=
IsOldBlock_strict(block_number, watermark) == block_number < watermark

\* Line 74: a transaction of an old block is passed over
IsOldBlock(block_number, watermark) == block_number <= watermark

\* Line 78: the value it leaves in LAST_BLOCK[address]
Advance(current, block_number) == block_number

AfterRecord == IF txIdx = Len(txs) THEN "iter" ELSE "proc"

\* Lines 70-75: one record, passed over
PollSkip ==
    /\ pollPc = "proc"
    /\ IsOldBlock(txs[txIdx].blockNumber, last_block)
    /\ txIdx' = txIdx + 1
    /\ pollPc' = AfterRecord
    /\ UNCHANGED <<chain, diskWatched, diskLastBlock, WATCHED_ADDRESSES,
                   LAST_BLOCK, mainPc, seedPos, iterPos, iterUsed, cur, resp,
                   last_block, txs, new_tx_count, notification_queue, item,
                   crashCause, addVars, history,
                   history2>>

\* Lines 70-82: one record, accepted
PollAccept ==
    /\ pollPc = "proc"
    /\ ~IsOldBlock(txs[txIdx].blockNumber, last_block)
    /\ LET tx   == txs[txIdx]
           pair == <<cur.address, tx.hash>>
       IN  /\ LAST_BLOCK' =
                Put(LAST_BLOCK, cur.address,
                    Advance(Get(LAST_BLOCK, cur.address), tx.blockNumber))
           /\ notification_queue' =
                Append(notification_queue,
                       [tx |-> tx, address |-> cur.address,
                        name |-> cur.name, chat_id |-> cur.chat_id])
           /\ new_tx_count' = new_tx_count + 1
           /\ notified' = notified \cup {pair}
           /\ renotified' = IF pair \in notified
                            THEN renotified \cup {pair} ELSE renotified
    /\ txIdx' = txIdx + 1
    /\ pollPc' = AfterRecord
    /\ UNCHANGED <<chain, diskWatched, diskLastBlock, WATCHED_ADDRESSES,
                   mainPc, seedPos, iterPos, iterUsed, cur, resp, last_block,
                   txs, item, crashCause, addVars, passLog, lastOutcome,
                   twinHashes, seeded,
                   history2>>


-----------------------------------------------------------------------------
(* Delivery: send_notifications, notify_transaction, detect_transaction_type *)

\* tx.get(key, ""), on the keys whose values are strings
GetStr(tx, key) == IF key \in DOMAIN tx THEN tx[key] ELSE EMPTY

\* detect_transaction_type(tx, address), lines 110-119
detect_transaction_type(tx, address) ==
    LET sender == Lower(GetStr(tx, "from"))
    IN  IF "tokenSymbol" \in DOMAIN tx /\ Contains(tx.tokenSymbol, NFT)
        THEN (IF sender = Lower(address) THEN "NFT Sale" ELSE "NFT Purchase")
        ELSE IF "tokenSymbol" \in DOMAIN tx
        THEN "Token Transfer"
        ELSE IF GetStr(tx, "input") # EMPTY /\ tx.input # ZERO_X
        THEN "Swap"
        ELSE "Unknown"

\* The lengths, in characters, of the pieces of the f-string of lines
\* 102-105: the text before the name, between name and type, between type
\* and link, the link before the hash and the link after it
HeadLen     == 31
MidLen      == 13
SepLen      == 3
LinkOpenLen == 43
LinkEndLen  == 29

\* len(str(tx.get('hash'))) for a transaction hash: "0x" and 64 hex digits
HashLen == 66

\* Lines 106-107: the longest message sent as it is, and what is kept of a
\* longer one
MaxMessage == 4096
KeepLen    == 4090

\* The length of the label detect_transaction_type returns, with its emoji
\* and the space after it
TypeLen(tx_type) ==
    CASE tx_type = "NFT Sale"       -> 10
      [] tx_type = "NFT Purchase"   -> 14
      [] tx_type = "Token Transfer" -> 16
      [] tx_type = "Swap"           -> 6
      [] OTHER                      -> 9

\* A piece of a message, n characters long; a character is known by the
\* piece it is of and its place in it
Piece(part, n) == [k \in 1..n |-> <<part, k>>]

\* The <a href=...>...</a> element of line 105
Link == Piece("link", LinkOpenLen + HashLen + LinkEndLen)

\* "..."
Ellipsis == Piece("dots", 3)

\* Lines 102-105: the message before the check of its length; name is a
\* sequence of characters
FormatMessage(tx, address, name) ==
    Piece("head", HeadLen) \o Piece("name", Len(name)) \o Piece("mid", MidLen)
      \o Piece("type", TypeLen(detect_transaction_type(tx, address)))
      \o Piece("sep", SepLen) \o Link

\* Lines 106-107: msg[:4090] + "..." when len(msg) > 4096
Truncate(msg) ==
    IF Len(msg) > MaxMessage THEN SubSeq(msg, 1, KeepLen) \o Ellipsis ELSE msg

\* notify_transaction, lines 100-108: the text handed to bot.send_message
notify_transaction(tx, address, name) ==
    Truncate(FormatMessage(tx, address, name))

\* What bot.send_message can come to: delivered, TelegramRetryAfter (flood
\* control, with a wait), or another Telegram error (bad request, blocked)
SendOutcomes == {"ok", "retry_after", "bad_request"}

\* The exception of bot.send_message leaving send_notifications
AfterSend_raise(outcome) == IF outcome = "ok" THEN "pace" ELSE "log"

\* Lines 95-98: where send_notifications goes on after bot.send_message:
\* to the pause of line 96, or through the except clause back to line 92
AfterSend(outcome) == IF outcome = "ok" THEN "pace" ELSE "dispatch"

\* Line 92: the queue is empty, send_notifications returns
PassDone ==
    /\ pollPc = "dispatch"
    /\ notification_queue = <<>>
    /\ pollPc' = "log"
    /\ UNCHANGED <<chain, diskWatched, diskLastBlock, WATCHED_ADDRESSES,
                   LAST_BLOCK, mainPc, seedPos, pollLocals, crashCause, resp,
                   addVars, history,
                   history2>>

\* Lines 88-89: the count is logged and the 30 s sleep begins.  The cycle's
\* locals are dead, and the history of the cycle ends with it.
GoSleep ==
    /\ pollPc = "log"
    /\ pollPc' = "sleep"
    /\ new_tx_count' = 0
    /\ passLog' = <<>>
    /\ lastOutcome' = "none"
    /\ UNCHANGED <<chain, diskWatched, diskLastBlock, WATCHED_ADDRESSES,
                   LAST_BLOCK, mainPc, seedPos, iterPos, iterUsed, cur, resp,
                   last_block, txs, txIdx, notification_queue, item,
                   crashCause, addVars, notified, renotified, twinHashes,
                   seeded,
                   history2>>

\* queue.get() taking the item put last
QueueGet_last(q) == [item |-> q[Len(q)], rest |-> SubSeq(q, 1, Len(q) - 1)]

\* Line 93, queue.get() on an asyncio.Queue: the item put first, and what
\* stays on the queue
QueueGet(q) == [item |-> Head(q), rest |-> Tail(q)]

\* Lines 92-95 and 100-108: the head of the queue is taken and its message
\* handed to bot.send_message
SendNext ==
    /\ pollPc = "dispatch"
    /\ notification_queue # <<>>
    /\ item' = QueueGet(notification_queue).item
    /\ notification_queue' = QueueGet(notification_queue).rest
    /\ pollPc' = "send"
    /\ UNCHANGED <<chain, diskWatched, diskLastBlock, WATCHED_ADDRESSES,
                   LAST_BLOCK, mainPc, seedPos, iterPos, iterUsed, cur, resp,
                   last_block, txs, txIdx, new_tx_count, crashCause, addVars,
                   history,
                   history2>>

\* Lines 95-98: send_message returns and the 2 s pause begins, or it raises
\* and the except clause logs the error; either way the loop goes on with
\* the next item
SendDone ==
    /\ pollPc = "send"
    /\ \E outcome \in SendOutcomes :
         /\ lastOutcome' = outcome
         /\ pollPc' = AfterSend(outcome)
    /\ passLog' = Append(passLog,
          [hash        |-> item.tx.hash,
           blockNumber |-> item.tx.blockNumber,
           address     |-> item.address,
           chat_id     |-> item.chat_id,
           tx_type     |-> detect_transaction_type(item.tx, item.address)])
    /\ item' = NoItem
    /\ UNCHANGED <<chain, diskWatched, diskLastBlock, WATCHED_ADDRESSES,
                   LAST_BLOCK, mainPc, seedPos, iterPos, iterUsed, cur, resp,
                   last_block, txs, txIdx, new_tx_count, notification_queue,
                   crashCause, addVars, notified, renotified, twinHashes, seeded,
                   history2>>

\* Line 96: asyncio.sleep(2) is over
PaceDone ==
    /\ pollPc = "pace"
    /\ pollPc' = "dispatch"
    /\ UNCHANGED <<chain, diskWatched, diskLastBlock, WATCHED_ADDRESSES,
                   LAST_BLOCK, mainPc, seedPos, pollLocals, crashCause, resp,
                   addVars, history,
                   history2>>

-----------------------------------------------------------------------------
(* The /add command: add_address(), lines 128-145.  One handler at a time. *)

AddInputs ==
    {<<"/add", a>> : a \in AddAddresses}
      \cup {<<"/add", a, n>> : a \in AddAddresses, n \in Names}

\* Lines 130-139: too few words give the usage answer and nothing else;
\* otherwise the registry gets the address, the registry file is written,
\* and the records of the address are requested
AddStartOn(inputs) ==
    /\ Running
    /\ ~PollAtomic
    /\ addPc = "idle"
    /\ adds < MaxAdds
    /\ \E parts \in inputs, chat \in Chats :
         IF Len(parts) < 3
         THEN UNCHANGED <<WATCHED_ADDRESSES, diskWatched, addVars, resp,
                          addNew>>
         ELSE /\ adds' = adds + 1
              /\ addNew' = ~HasKey(WATCHED_ADDRESSES, parts[2])
              /\ WATCHED_ADDRESSES' =
                   PutWatched(WATCHED_ADDRESSES, parts[2], parts[3], chat)
              /\ diskWatched' = save_json(diskWatched, WATCHED_ADDRESSES')
              /\ addArg' = parts[2]
              /\ addPc' = "fetch"
              /\ resp' = [resp EXCEPT !.add = NoResp]
    /\ UNCHANGED <<chain, diskLastBlock, LAST_BLOCK, mainPc, seedPos,
                   pollVars, history, startSeen>>

AddStart == AddStartOn(AddInputs)

\* Lines 139-145: the records are there (or fetch_transactions raised, which
\* ends the handler); with records LAST_BLOCK gets the highest block and the
\* progress file is written
AddResume ==
    /\ Running
    /\ ~PollAtomic
    /\ addPc = "fetch"
    /\ resp.add # NoResp
    /\ \E body \in Bodies(resp.add) :
       LET transactions == fetch_transactions(resp.add, body)
       IN  IF ~transactions.raised /\ transactions.result # <<>>
           THEN LET latest_block == LatestBlock(transactions.result)
                IN  /\ LAST_BLOCK' = Put(LAST_BLOCK, addArg, latest_block)
                    /\ diskLastBlock' = save_json(diskLastBlock, LAST_BLOCK')
                    /\ seeded' = [seeded EXCEPT ![addArg] = latest_block]
                    /\ twinHashes' = [twinHashes EXCEPT ![addArg] = {}]
           ELSE UNCHANGED <<LAST_BLOCK, diskLastBlock, seeded, twinHashes>>
    /\ addPc' = "idle"
    /\ addArg' = EMPTY
    /\ addNew' = FALSE
    /\ UNCHANGED adds
    /\ resp' = [resp EXCEPT !.add = NoResp]
    /\ UNCHANGED <<chain, diskWatched, WATCHED_ADDRESSES, mainPc, seedPos,
                   pollVars, notified, renotified, passLog, lastOutcome,
                   startSeen>>

-----------------------------------------------------------------------------
(* The environment *)

\* The explorer answers the request of the poll loop with what it knows by
\* then
RespondPoll ==
    /\ pollPc = "fetch"
    /\ resp.poll = NoResp
    /\ \E c \in Grown(chain) : \E raw \in HttpOutcomes(c, cur.address) :
         /\ chain' = c
         /\ resp' = [resp EXCEPT !.poll = raw]
    /\ UNCHANGED <<diskWatched, diskLastBlock, WATCHED_ADDRESSES,
                   LAST_BLOCK, mainPc, seedPos, pollVars, addVars, history,
                   history2>>

\* The explorer answers the request of the /add handler
RespondAdd ==
    /\ ~PollAtomic
    /\ addPc = "fetch"
    /\ resp.add = NoResp
    /\ \E c \in Grown(chain) : \E raw \in HttpOutcomes(c, addArg) :
         /\ chain' = c
         /\ resp' = [resp EXCEPT !.add = raw]
    /\ UNCHANGED <<diskWatched, diskLastBlock, WATCHED_ADDRESSES,
                   LAST_BLOCK, mainPc, seedPos, pollVars, addVars, history,
                   history2>>

-----------------------------------------------------------------------------

Next ==
    \/ LoadData
    \/ SeedStep
    \/ SeedDone
    \/ CycleStart
    \/ PollDictChanged
    \/ PollFetch
    \/ PollSweepDone
    \/ PollFetchRaised
    \/ PollFetchEmpty
    \/ PollFetchRecords
    \/ PollSkip
    \/ PollAccept
    \/ PassDone
    \/ GoSleep
    \/ SendNext
    \/ SendDone
    \/ PaceDone
    \/ AddStart
    \/ AddResume
    \/ RespondPoll
    \/ RespondAdd

Spec == Init /\ [][Next]_vars


-----------------------------------------------------------------------------
(* A dispatcher pass over one record of any shape *)

ABSENT == <<"-">>

\* The record with key k, or without it when v is ABSENT
Opt(k, v) == IF v = ABSENT THEN [x \in {} |-> EMPTY] ELSE (k :> v)

\* The token-symbol, sender, call-input and value fields a record may carry
Symbols == {ABSENT, USDC, NFT, APE_NFT, NFT_LOW}
Senders == {ABSENT, A_LOWER, A_UPPER, C_LOWER}
Inputs  == {ABSENT, EMPTY, ZERO_X, CALLDATA}
Values  == {ABSENT, <<"0">>, <<"1", "0", "0", "0">>}

Shape(sym, from, input, value) ==
    [hash |-> 9, blockNumber |-> 1, to |-> C_LOWER]
      @@ Opt("tokenSymbol", sym) @@ Opt("from", from)
      @@ Opt("input", input) @@ Opt("value", value)

Shapes ==
    {Shape(sym, from, input, value) :
        sym \in Symbols, from \in Senders, input \in Inputs, value \in Values}

\* The poll loop has just accepted one record, of any shape, for a watched
\* address spelt in lower or in mixed case, and begins the dispatcher pass
InitClassify ==
    /\ \E tx \in Shapes, address \in {A_LOWER, A_MIXED} :
         /\ WATCHED_ADDRESSES = <<Entry(address)>>
         /\ LAST_BLOCK = (address :> tx.blockNumber)
         /\ notification_queue =
              <<[tx |-> tx, address |-> address, name |-> "alice",
                 chat_id |-> 7]>>
         /\ notified = {<<address, tx.hash>>}
    /\ diskWatched = WATCHED_ADDRESSES
    /\ diskLastBlock = LAST_BLOCK
    /\ chain = {}
    /\ mainPc = "running"
    /\ seedPos = 1
    /\ pollPc = "dispatch"
    /\ iterPos = 0
    /\ iterUsed = 0
    /\ cur = NoEntry
    /\ resp = [poll |-> NoResp, add |-> NoResp]
    /\ last_block = 0
    /\ txs = <<>>
    /\ txIdx = 0
    /\ new_tx_count = 1
    /\ item = NoItem
    /\ crashCause = "none"
    /\ addPc = "idle"
    /\ addArg = EMPTY
    /\ adds = 0
    /\ renotified = {}
    /\ passLog = <<>>
    /\ lastOutcome = "none"
    /\ twinHashes = [a \in Addresses |-> {}]
    /\ seeded = [a \in Addresses |-> -1]
    /\ addNew = FALSE
    /\ startSeen = [a \in Addresses |-> {}]

NextClassify ==
    \/ SendNext
    \/ SendDone
    \/ PaceDone
    \/ PassDone
    \/ GoSleep

SpecClassify == InitClassify /\ [][NextClassify]_vars

-----------------------------------------------------------------------------
(* A dispatcher pass over one item with a name of any length *)

\* The longest name /add can bring: a Telegram message has at most 4096
\* characters, "/add", a 42-character address and two spaces take 48
MaxName == 4048

\* The shortest of the long names looked at
MinLongName == 3880

NameLens == {5} \cup (MinLongName..MaxName)

\* A name of n characters
Word(n) == [k \in 1..n |-> "n"]

\* Records of the five types
Typed ==
    {TX1, TX2, TX3,
     Shape(ABSENT, C_LOWER, CALLDATA, ABSENT),
     Shape(ABSENT, C_LOWER, ZERO_X, ABSENT)}

\* The poll loop has just accepted one record for 0xa, subscribed under a
\* name of any length, and begins the dispatcher pass
InitNotify ==
    /\ \E tx \in Typed, n \in NameLens :
         /\ WATCHED_ADDRESSES =
              <<[address |-> A_LOWER, name |-> Word(n), chat_id |-> 7]>>
         /\ LAST_BLOCK = (A_LOWER :> tx.blockNumber)
         /\ notification_queue =
              <<[tx |-> tx, address |-> A_LOWER, name |-> Word(n),
                 chat_id |-> 7]>>
         /\ notified = {<<A_LOWER, tx.hash>>}
    /\ diskWatched = WATCHED_ADDRESSES
    /\ diskLastBlock = LAST_BLOCK
    /\ chain = {}
    /\ mainPc = "running"
    /\ seedPos = 1
    /\ pollPc = "dispatch"
    /\ iterPos = 0
    /\ iterUsed = 0
    /\ cur = NoEntry
    /\ resp = [poll |-> NoResp, add |-> NoResp]
    /\ last_block = 0
    /\ txs = <<>>
    /\ txIdx = 0
    /\ new_tx_count = 1
    /\ item = NoItem
    /\ crashCause = "none"
    /\ addPc = "idle"
    /\ addArg = EMPTY
    /\ adds = 0
    /\ renotified = {}
    /\ passLog = <<>>
    /\ lastOutcome = "none"
    /\ twinHashes = [a \in Addresses |-> {}]
    /\ seeded = [a \in Addresses |-> -1]
    /\ addNew = FALSE
    /\ startSeen = [a \in Addresses |-> {}]

SpecNotify == InitNotify /\ [][NextClassify]_vars

-----------------------------------------------------------------------------
(* One address under two spellings *)

\* What users send: /add with 0xb or with 0xB, with or without a name
CaseInputs ==
    {<<"/add", a>> : a \in {B_LOWER, B_MIXED}}
      \cup {<<"/add", a, n>> : a \in {B_LOWER, B_MIXED}, n \in Names}

AddStartCase == AddStartOn(CaseInputs)

\* What an earlier run may have left: no registry file or one that holds
\* 0xb or 0xB; no progress file, or one that holds block 1 for that key
InitCase ==
    /\ diskWatched \in {<<>>, <<Entry(B_LOWER)>>, <<Entry(B_MIXED)>>}
    /\ \/ /\ diskLastBlock = EmptyDict
          /\ chain = {}
       \/ /\ diskWatched # <<>>
          /\ diskLastBlock = (diskWatched[1].address :> 1)
          /\ chain = {1}
    /\ WATCHED_ADDRESSES = <<>>
    /\ LAST_BLOCK = EmptyDict
    /\ mainPc = "load"
    /\ seedPos = 0
    /\ pollPc = "unborn"
    /\ iterPos = 0
    /\ iterUsed = 0
    /\ cur = NoEntry
    /\ resp = [poll |-> NoResp, add |-> NoResp]
    /\ last_block = 0
    /\ txs = <<>>
    /\ txIdx = 0
    /\ new_tx_count = 0
    /\ notification_queue = <<>>
    /\ item = NoItem
    /\ crashCause = "none"
    /\ addPc = "idle"
    /\ addArg = EMPTY
    /\ adds = 0
    /\ notified = {}
    /\ renotified = {}
    /\ passLog = <<>>
    /\ lastOutcome = "none"
    /\ twinHashes = [a \in Addresses |-> {}]
    /\ seeded = [a \in Addresses |-> -1]
    /\ addNew = FALSE
    /\ startSeen = [a \in Addresses |-> {}]

NextCase ==
    \/ LoadData
    \/ SeedStep
    \/ SeedDone
    \/ CycleStart
    \/ PollDictChanged
    \/ PollFetch
    \/ PollSweepDone
    \/ PollFetchRaised
    \/ PollFetchEmpty
    \/ PollFetchRecords
    \/ PollSkip
    \/ PollAccept
    \/ PassDone
    \/ GoSleep
    \/ SendNext
    \/ SendDone
    \/ PaceDone
    \/ AddStartCase
    \/ AddResume
    \/ RespondPoll
    \/ RespondAdd

SpecCase == InitCase /\ [][NextCase]_vars

-----------------------------------------------------------------------------
(* A dispatcher pass over any queue a poll cycle can build *)

\* The longest queue looked at
MaxQueue == 3

\* The items a cycle can accept: a record of the explorer for an address
\* that is party to it
Items ==
    {e \in {[tx |-> t, address |-> a, name |-> "alice", chat_id |-> 7] :
               t \in Universe, a \in {A_LOWER, B_LOWER}} :
        e.tx \in Explorer(Hashes, e.address)}

\* The queues a cycle can build: each item at most once
Queues ==
    UNION {{q \in [1..n -> Items] :
              \A i, j \in 1..n : i # j => q[i] # q[j]} : n \in 1..MaxQueue}

\* The poll loop has accepted the items of a queue, written the progress
\* file and begins the dispatcher pass
InitDispatch ==
    /\ \E q \in Queues :
         /\ notification_queue = q
         /\ new_tx_count = Len(q)
         /\ notified = {<<q[i].address, q[i].tx.hash>> : i \in 1..Len(q)}
         /\ LAST_BLOCK =
              [a \in {q[i].address : i \in 1..Len(q)} |->
                 LET last == CHOOSE i \in 1..Len(q) :
                                /\ q[i].address = a
                                /\ \A j \in 1..Len(q) :
                                      q[j].address = a => j <= i
                 IN  q[last].tx.blockNumber]
    /\ WATCHED_ADDRESSES = <<Entry(A_LOWER), Entry(B_LOWER)>>
    /\ diskWatched = WATCHED_ADDRESSES
    /\ diskLastBlock = LAST_BLOCK
    /\ chain = Hashes
    /\ mainPc = "running"
    /\ seedPos = 2
    /\ pollPc = "dispatch"
    /\ iterPos = 0
    /\ iterUsed = 0
    /\ cur = NoEntry
    /\ resp = [poll |-> NoResp, add |-> NoResp]
    /\ last_block = 0
    /\ txs = <<>>
    /\ txIdx = 0
    /\ item = NoItem
    /\ crashCause = "none"
    /\ addPc = "idle"
    /\ addArg = EMPTY
    /\ adds = 0
    /\ renotified = {}
    /\ passLog = <<>>
    /\ lastOutcome = "none"
    /\ twinHashes = [a \in Addresses |-> {}]
    /\ seeded = [a \in Addresses |-> -1]
    /\ addNew = FALSE
    /\ startSeen = [a \in Addresses |-> {}]

\* The event loop resumes send_notifications whenever the await it is
\* suspended in is over: bot.send_message returns or raises, the pause of
\* 2 s ends
SpecDispatch ==
    InitDispatch /\ [][NextClassify]_vars /\ WF_vars(NextClassify)

-----------------------------------------------------------------------------
(* Properties *)

\* The items of the queue that were accepted for an address
QueuedFor(address) ==
    {i \in 1..Len(notification_queue) :
        notification_queue[i].address = address}

\* The delivery attempts of this pass made for the item of entry e
Attempts(e) ==
    Cardinality({i \in 1..Len(passLog) :
                    /\ passLog[i].hash = e.hash
                    /\ passLog[i].address = e.address})

\* C1: exactly-once notification.  Whatever the cycles and whatever the
\* order of the records, no transaction (address, hash) is put on a
\* notification queue a second time.
C1_ExactlyOnce == renotified = {}

\* C2: LAST_BLOCK is monotonically non-decreasing.  No step, of the poll
\* loop, of the startup seeding or of /add, leaves the entry of an address
\* lower than it was.
C2_Monotonic ==
    [][\A a \in Addresses : Get(LAST_BLOCK', a) >= Get(LAST_BLOCK, a)]_vars

\* C3: same-block disambiguation.  When the records of one response have
\* been gone through, every two of them that lie above the watermark with
\* distinct hashes at one block are both on the queue; and while the next
\* response for the address is gone through, if it holds those hashes
\* again, none of them is put on the queue.
C3_SameBlock ==
    /\ (pollPc = "iter" /\ txs # <<>>) =>
          \A p \in Twins(txs, last_block) :
             \E i \in QueuedFor(cur.address) :
                notification_queue[i].tx.hash = p[1].hash
    /\ (pollPc = "proc" /\ twinHashes[cur.address] # {}
          /\ twinHashes[cur.address] \subseteq HashSet(txs)) =>
          \A i \in QueuedFor(cur.address) :
             notification_queue[i].tx.hash \notin twinHashes[cur.address]

\* C4: per-address ordering.  The notifications of one address are in
\* non-decreasing block order, on the queue a poll cycle produces and in the
\* attempts the dispatcher makes.
C4_Ordering ==
    /\ \A i, j \in 1..Len(notification_queue) :
          (i < j /\ notification_queue[i].address
                      = notification_queue[j].address)
             => notification_queue[i].tx.blockNumber
                  <= notification_queue[j].tx.blockNumber
    /\ \A i, j \in 1..Len(passLog) :
          (i < j /\ passLog[i].address = passLog[j].address)
             => passLog[i].blockNumber <= passLog[j].blockNumber

\* C5: per-address isolation.  The failed fetch of one address never costs
\* another address the notifications of the transactions the cycle has
\* accepted for it: the poll loop is never ended by a fetch error with
\* items of other addresses left on its queue.
C5_Isolation ==
    ~(/\ pollPc = "crashed"
      /\ crashCause = "FetchError"
      /\ \E i \in 1..Len(notification_queue) :
            notification_queue[i].address # cur.address)

\* C6: scheduler survival.  No fetch error, of whatever kind, ends the poll
\* loop.
C6_SchedulerSurvives == crashCause # "FetchError"

\* C7: no replay after seeding.  Once LAST_BLOCK of an address has been
\* seeded to a block B, a response for it whose records are all of blocks
\* <= B puts nothing on the queue for the address and leaves its LAST_BLOCK
\* as it was, not below B.
C7_NoReplay ==
    (/\ pollPc \in {"proc", "iter"}
     /\ txs # <<>>
     /\ seeded[cur.address] >= 0
     /\ \A i \in 1..Len(txs) : txs[i].blockNumber <= seeded[cur.address])
    => /\ QueuedFor(cur.address) = {}
       /\ Get(LAST_BLOCK, cur.address) = last_block
       /\ last_block >= seeded[cur.address]

\* C7, its case: the records of a response for an address seeded to a block
\* of the chain have all been passed over
C7_Witness ==
    /\ pollPc = "iter"
    /\ txs # <<>>
    /\ seeded[cur.address] >= 1
    /\ \A i \in 1..Len(txs) : txs[i].blockNumber <= seeded[cur.address]
    /\ QueuedFor(cur.address) = {}
    /\ Get(LAST_BLOCK, cur.address) = seeded[cur.address]

\* C8: rate-limit retry.  After the first attempt for an item has failed
\* with TelegramRetryAfter, the next attempt is for the same item, and no
\* item is attempted more than twice.
C8_RetryOnce ==
    /\ (/\ lastOutcome = "retry_after"
        /\ pollPc \in {"send", "log"}
        /\ Attempts(passLog[Len(passLog)]) = 1)
       => /\ pollPc = "send"
          /\ item.tx.hash = passLog[Len(passLog)].hash
          /\ item.address = passLog[Len(passLog)].address
    /\ \A i \in 1..Len(passLog) : Attempts(passLog[i]) <= 2

\* true when the decimal string is the numeral of a positive integer
Positive(value) == \E i \in 1..Len(value) : value[i] # "0"

\* The first-match-wins table of the classification, with the labels of
\* detect_transaction_type and "Native Transfer" for the class the code has
\* no label for
ClassificationTable(tx, address) ==
    IF "tokenSymbol" \in DOMAIN tx /\ Contains(tx.tokenSymbol, NFT)
    THEN (IF Lower(GetStr(tx, "from")) = Lower(address)
          THEN "NFT Sale" ELSE "NFT Purchase")
    ELSE IF "tokenSymbol" \in DOMAIN tx
    THEN "Token Transfer"
    ELSE IF GetStr(tx, "input") # EMPTY /\ tx.input # ZERO_X
    THEN "Swap"
    ELSE IF GetStr(tx, "input") = ZERO_X /\ Positive(GetStr(tx, "value"))
    THEN "Native Transfer"
    ELSE "Unknown"

\* C9: classification.  For every record shape the type the notification
\* of an item is sent with is the one the first-match-wins table gives.
C9_Classification ==
    pollPc = "send" =>
       detect_transaction_type(item.tx, item.address)
          = ClassificationTable(item.tx, item.address)

\* C10: /add while the scheduler runs.  An address added to the registry at
\* any point of a cycle never ends the poll loop: the iteration over the
\* registry is never broken off by a change of the registry.
C10_AddKeepsRunning ==
    ~(pollPc = "crashed" /\ crashCause = "RuntimeError" /\ adds > 0)

\* C11: eligibility.  A record of a response is put on the queue if and
\* only if its block is above LAST_BLOCK of the address, or equal to it
\* with a hash not yet notified for the address.
C11_Eligibility ==
    [][(pollPc = "proc" /\ txIdx' = txIdx + 1) =>
          LET tx == txs[txIdx]
              lastBlock == Get(LAST_BLOCK, cur.address)
              eligible ==
                 \/ tx.blockNumber > lastBlock
                 \/ /\ tx.blockNumber = lastBlock
                    /\ <<cur.address, tx.hash>> \notin notified
          IN  (notification_queue' # notification_queue) <=> eligible]_vars

\* C12: seeding precedes polling.  While the /add handler of a newly
\* subscribed address has not finished seeding LAST_BLOCK, no poll cycle
\* goes through records of that address (line 69 has not read LAST_BLOCK
\* of the address before the seeding wrote it).
C12_SeedBeforePoll ==
    ~(/\ addPc = "fetch"
      /\ addNew
      /\ pollPc = "proc"
      /\ cur.address = addArg)

\* C13: persistence ordering.  A step of the poll loop that writes the
\* progress file is taken only when a delivery attempt for an item of the
\* cycle has been initiated.
C13_PersistAfterDispatch ==
    [][(/\ mainPc = "running"
        /\ pollPc' # pollPc
        /\ diskLastBlock' # diskLastBlock)
       => (passLog # <<>> \/ pollPc \in {"send", "pace"})]_vars

\* C14: the poll loop writes the progress file in a cycle if and only if
\* the cycle accepted a transaction.  A cycle that accepted one does not
\* end, at its log line or by an exception, with the file differing from
\* LAST_BLOCK; and a step of the poll loop that writes the file belongs to
\* a cycle that accepted one.
C14_PersistIffNew ==
    /\ []((\/ pollPc = "log" /\ new_tx_count > 0
           \/ pollPc = "crashed" /\ notification_queue # <<>>)
          => diskLastBlock = LAST_BLOCK)
    /\ [][(/\ mainPc = "running"
           /\ pollPc' # pollPc
           /\ diskLastBlock' # diskLastBlock)
          => new_tx_count > 0]_vars

\* The items of a dispatcher pass in their order: those attempted, the one
\* being attempted, those still on the queue
PassOrder ==
    [i \in 1..Len(passLog) |-> <<passLog[i].address, passLog[i].hash>>]
      \o (IF pollPc = "send" THEN <<<<item.address, item.tx.hash>>>>
                             ELSE <<>>)
      \o [i \in 1..Len(notification_queue) |->
            <<notification_queue[i].address, notification_queue[i].tx.hash>>]

\* C15: FIFO dispatch.  The poll cycle puts each accepted item behind those
\* already on the queue, the dispatcher pass begins with that queue and
\* nothing attempted, and no step of the pass changes the order of its
\* items: the attempts are made in the order of enqueueing.
C15_Fifo ==
    [][/\ (pollPc = "proc" /\ pollPc' \in {"proc", "iter"}) =>
             SubSeq(notification_queue', 1, Len(notification_queue))
                = notification_queue
       /\ (pollPc = "iter" /\ pollPc' = "dispatch") =>
             (passLog' = <<>> /\ notification_queue' = notification_queue)
       /\ (/\ pollPc \in {"dispatch", "send", "pace"}
           /\ pollPc' \in {"dispatch", "send", "pace", "log"})
          => PassOrder' = PassOrder]_vars

\* C15, its case: a pass has attempted two items of different blocks and
\* still has a third on the queue
C15_Witness ==
    /\ pollPc = "dispatch"
    /\ Len(passLog) = 2
    /\ passLog[1].blockNumber # passLog[2].blockNumber
    /\ Len(notification_queue) = 1

\* true when the whole link element is in the message
HasLink(msg) ==
    \E k \in 0..(Len(msg) - Len(Link)) :
       \A i \in 1..Len(Link) : msg[k + i] = Link[i]

\* C16: truncation preserves the link.  Whenever the formatted message of
\* an item is longer than the maximum, the message handed to
\* bot.send_message is within the maximum, ends with the ellipsis and holds
\* the complete link.
C16_TruncationKeepsLink ==
    (/\ pollPc = "send"
     /\ Len(FormatMessage(item.tx, item.address, item.name)) > MaxMessage)
    => LET msg == notify_transaction(item.tx, item.address, item.name)
       IN  /\ Len(msg) <= MaxMessage
           /\ SubSeq(msg, Len(msg) - 2, Len(msg)) = Ellipsis
           /\ HasLink(msg)

\* C17: addresses are compared case-insensitively.  No two keys of the
\* registry and no two keys of LAST_BLOCK are one address in different
\* letter case, and no queue holds one transaction twice for one address.
C17_CaseInsensitive ==
    /\ \A i, j \in 1..Len(WATCHED_ADDRESSES) :
          i # j => Lower(WATCHED_ADDRESSES[i].address)
                     # Lower(WATCHED_ADDRESSES[j].address)
    /\ \A a, b \in DOMAIN LAST_BLOCK : a # b => Lower(a) # Lower(b)
    /\ \A i, j \in 1..Len(notification_queue) :
          i # j =>
             ~(/\ notification_queue[i].tx.hash = notification_queue[j].tx.hash
               /\ Lower(notification_queue[i].address)
                    = Lower(notification_queue[j].address))

\* The highest block of the transactions of the hashes S
MaxBlock(S) ==
    CHOOSE b \in {TxByHash(h).blockNumber : h \in S} :
       \A h \in S : TxByHash(h).blockNumber <= b

\* C18: startup re-seeding.  A turn of set_initial_last_block() that got a
\* non-empty list leaves LAST_BLOCK of the address at the highest block of
\* that list, whatever it was before; and no transaction of the list is
\* ever put on a notification queue for the address.
C18_StartupReseed ==
    /\ [][(mainPc = "seed" /\ startSeen' # startSeen) =>
             LET address == Keys(WATCHED_ADDRESSES)[seedPos + 1]
             IN  LAST_BLOCK'[address] = MaxBlock(startSeen'[address])]_vars
    /\ [](\A a \in Addresses : \A h \in startSeen[a] :
             <<a, h>> \notin notified)

\* C18, its case: the startup fetch of an address held the transfer of
\* block 1, and the poll loop has gone through a later response that holds
\* it again together with a newer one, which it has accepted
C18_Witness ==
    /\ pollPc = "iter"
    /\ txs # <<>>
    /\ startSeen[cur.address] = {1}
    /\ {1, 2} \subseteq HashSet(txs)
    /\ <<cur.address, 2>> \in notified
    /\ <<cur.address, 1>> \notin notified

\* C19: the progress file at the sleep.  Whenever the poll loop is in its
\* 30 s sleep, the progress file holds what LAST_BLOCK holds.
C19_SnapshotAtSleep == pollPc = "sleep" => diskLastBlock = LAST_BLOCK

\* C19, its case: the poll loop sleeps after a cycle that moved LAST_BLOCK
\* of one address, with LAST_BLOCK of another address written by /add
\* since the process started
C19_Witness ==
    /\ pollPc = "sleep"
    /\ adds > 0
    /\ seeded[B_LOWER] >= 1
    /\ \E h \in Hashes : <<A_LOWER, h>> \in notified
    /\ LAST_BLOCK = diskLastBlock

\* C20: a dispatcher pass terminates.  Every pass reaches the log line of
\* its cycle, and it does so with the queue empty and each of the items the
\* cycle enqueued attempted exactly once, whatever the outcomes; no item is
\* attempted twice and no step of the pass puts an item on the queue.
C20_PassTerminates ==
    /\ (pollPc = "dispatch") ~> (pollPc = "log")
    /\ [](pollPc = "log" =>
            /\ notification_queue = <<>>
            /\ Len(passLog) = new_tx_count)
    /\ [](\A i \in 1..Len(passLog) : Attempts(passLog[i]) = 1)
    /\ [][Len(notification_queue') <= Len(notification_queue)]_vars

\* C20, its case: a pass over three items has ended, the last attempt
\* having failed with a permanent error
C20_Witness ==
    /\ pollPc = "log"
    /\ Len(passLog) = 3
    /\ lastOutcome = "bad_request"
    /\ notification_queue = <<>>

=============================================================================
